---- MODULE Spec2Model ----
(***************************************************************************)
(* A model of wavelink.node.Node and wavelink.meta.WavelinkMixin.          *)
(*                                                                         *)
(* Several state machines share this module and its variables, one per    *)
(* group of operations:                                                    *)
(*   SpecRest        Node.get_tracks and Node.build_track, each split at   *)
(*                   its await points;                                     *)
(*   SpecConcurrent  two searches and a build_track running side by side   *)
(*                   with open, close and on_event;                        *)
(*   SpecNode        the node's flags, stats, transport handle and _send;  *)
(*   SpecLifecycle   the operations a caller can invoke around destroy;    *)
(*   SpecDestroy     destroy on a node that owns players;                  *)
(*   SpecDispatch    set_hook and on_event;                                *)
(*   SpecMeta        the listener marker, the scan of                      *)
(*                   WavelinkMixin.__new__ and listener dispatch.          *)
(* Python's None is the empty tuple <<>> and a present value x is <<x>>.   *)
(***************************************************************************)
EXTENDS Integers, Sequences, FiniteSets, TLC

VARIABLES
    asyncio_bound,  \* what looking up the name asyncio in node.py gave: None
                    \* until it is first looked up, then Some(TRUE) for a bound
                    \* name, Some(FALSE) for NameError
    gt,             \* the running get_tracks calls, by call id
    bt,             \* the running build_track calls, by call id
    available,      \* Node.available
    stats,          \* Node.stats: None or the last Stats snapshot
    websocket,      \* Node._websocket: None or the id of a WebSocket object
    hook,           \* Node.hook: None or the registered callable
    players,        \* Node.players: the guild ids, in insertion order
    nodes,          \* Client.nodes: the identifiers registered in the pool
    ws,             \* the WebSocket objects created so far, by id
    d,              \* the running Node.destroy calls, by call id
    ev,             \* the running Node.on_event calls, by event
    log,            \* the hook invocations, in the order they happened
    pcalls,         \* how often each player's destroy() has been called
    err,            \* the exception the last set_hook() raised, "" if none
    penaltyRead,    \* the value the last read of Node.penalty returned
    h_closed,       \* history: the last of open()/close() was close()
    h_total,        \* history: the penalty total of the last stats update
    h_removals,     \* history: how many registry entries destroy() deleted
    h_sends,        \* history: the _send calls, and those before any connect
    marks,          \* func.__wavelink_listeners__ of the class's functions
    cls_listeners,  \* cls.__wavelink_listeners__: None until instantiated
    instances,      \* how many instances of the class have been created
    merr,           \* the exception the last marker application raised
    dsp,            \* the running listener dispatch
    sink,           \* the listeners reported to on_wavelink_error, in order
    h_scans,        \* history: how often __new__ scanned the members
    h_func          \* history: the function the marker was last applied to

restVars == <<asyncio_bound, gt, bt>>
fieldVars == <<available, stats, websocket, hook, players, nodes>>
procVars == <<d, ev, log, pcalls, err>>
histVars == <<penaltyRead, h_closed, h_total, h_removals>>
nodeVars == <<fieldVars, ws, procVars, histVars, h_sends>>
metaVars == <<marks, cls_listeners, instances, merr, dsp, sink, h_scans,
              h_func>>
vars == <<restVars, nodeVars, metaVars>>

None == <<>>
Some(x) == <<x>>

(***************************************************************************)
(* Bounds of the model.                                                    *)
(***************************************************************************)
MaxTracks == 2
MaxTotal == 1
MaxConnects == 2
MaxPlayers == 3
MaxSent == 2
MaxMarks == 2
MaxInstances == 2

(***************************************************************************)
(* REST: the responses the session can hand back.                          *)
(***************************************************************************)
RETRIES == 5
HTTP_OK == 200

Statuses == {HTTP_OK, 404, 500}

TrackIds == {"QAAAdAIA"}
TrackEntries == {[track |-> t, info |-> "info"] : t \in TrackIds}
TrackLists == UNION {[1..n -> TrackEntries] : n \in 0..MaxTracks}

\* The decoded JSON body of a /loadtracks response.  The key "tracks" may be
\* absent (the code reads it with .get); "playlistInfo" is read by index and
\* is null, an empty object or a filled object.
LoadBodies ==
    {[hasTracks |-> TRUE, tracks |-> ts, playlistInfo |-> p] :
        ts \in TrackLists, p \in {"null", "empty", "full"}}
    \cup {[hasTracks |-> FALSE, tracks |-> <<>>, playlistInfo |-> p] :
        p \in {"null", "empty", "full"}}
LoadResponses == [status : Statuses, data : LoadBodies]

\* The decoded JSON body of a /decodetrack response: track metadata on
\* success, the server's error object (status, error) otherwise.
DecodeBodies ==
    [status : {404, 500}, error : {"Not Found", "Internal Server Error"},
     title : {"song"}]
DecodeResponses == [status : Statuses, data : DecodeBodies]

Identifiers == {"idA", "idB"}

SearchCalls == {"s1", "s2"}
BuildCalls == {"b1"}

\* data.get("tracks", None)
GetTracksField(data) == IF data.hasTracks THEN Some(data.tracks) ELSE None

\* Python truth of data.get("tracks", None): None and [] are false.
TracksTruthy(data) ==
    /\ GetTracksField(data) # None
    /\ Len(GetTracksField(data)[1]) > 0

\* Python truth of data["playlistInfo"]: None and {} are false.
PlaylistInfoTruthy(data) == data.playlistInfo = "full"

\* Track(id_=track["track"], info=track["info"])
Track(id_, info) == [id |-> id_, info |-> info]

\* The list built by the loop over data["tracks"].
BuildTrackList(data) ==
    [i \in 1..Len(data.tracks) |->
        Track(data.tracks[i].track, data.tracks[i].info)]

NoResult == [kind |-> "pending", tracks |-> <<>>]

\* GetTracksResult with the playlist test dropped: every non-empty result is
\* returned as a plain list.
GetTracksResultNoPlaylist(retries, data) ==
    IF retries = 0 \/ ~TracksTruthy(data)
    THEN [kind |-> "None", tracks |-> <<>>]
    ELSE [kind |-> "list", tracks |-> BuildTrackList(data)]

\* The tail of get_tracks, after the retry loop.
GetTracksResult(retries, data) ==
    IF retries = 0 \/ ~TracksTruthy(data)
    THEN [kind |-> "None", tracks |-> <<>>]
    ELSE IF PlaylistInfoTruthy(data)
         THEN [kind |-> "TrackPlaylist", tracks |-> BuildTrackList(data)]
         ELSE [kind |-> "list", tracks |-> BuildTrackList(data)]

NoData == [hasTracks |-> FALSE, tracks |-> <<>>, playlistInfo |-> "null"]

IdleSearch ==
    [pc |-> "idle", retries |-> 0, status |-> 0, script |-> <<>>,
     data |-> NoData, requests |-> 0, sleeps |-> 0, result |-> NoResult]

\* get_tracks is called: retries = 5, the loop is entered and the first GET
\* is issued; the call suspends until the response is there.
GetTracksCall(c) ==
    /\ gt[c].pc = "idle"
    /\ gt' = [gt EXCEPT ![c].pc = "get", ![c].retries = RETRIES,
                        ![c].requests = 1]
    /\ UNCHANGED <<asyncio_bound, bt, nodeVars, metaVars>>

\* GetTracksResponse retrying on every response whose body has no tracks, a
\* 200 included.
GetTracksResponseRetryEmpty(c, resp) ==
    /\ gt[c].pc = "get"
    /\ LET g == [gt[c] EXCEPT !.status = resp.status,
                              !.script = Append(@, resp.status),
                              !.data = resp.data]
       IN IF resp.status # HTTP_OK \/ ~TracksTruthy(resp.data)
          THEN /\ asyncio_bound' = Some(TRUE)
               /\ gt' = [gt EXCEPT ![c] =
                        [g EXCEPT !.retries = @ - 1, !.pc = "sleep"]]
          ELSE /\ gt' = [gt EXCEPT ![c] =
                        [g EXCEPT !.pc = "done",
                                  !.result = GetTracksResult(g.retries, g.data)]]
               /\ UNCHANGED asyncio_bound
    /\ UNCHANGED <<bt, nodeVars, metaVars>>

\* GetTracksResponse with one retries counter for the node: a non-200
\* response takes an attempt from every running call.
GetTracksResponseSharedBudget(c, resp) ==
    /\ gt[c].pc = "get"
    /\ LET g == [gt[c] EXCEPT !.status = resp.status,
                              !.script = Append(@, resp.status),
                              !.data = resp.data]
       IN IF resp.status # HTTP_OK
          THEN /\ asyncio_bound' = Some(TRUE)
               /\ gt' = [x \in SearchCalls |->
                           IF x = c
                           THEN [g EXCEPT !.retries = @ - 1, !.pc = "sleep"]
                           ELSE IF gt[x].pc \in {"get", "sleep"} /\ gt[x].retries > 1
                                THEN [gt[x] EXCEPT !.retries = @ - 1]
                                ELSE gt[x]]
          ELSE /\ gt' = [gt EXCEPT ![c] =
                        [g EXCEPT !.pc = "done",
                                  !.result = GetTracksResult(g.retries, g.data)]]
               /\ UNCHANGED asyncio_bound
    /\ UNCHANGED <<bt, nodeVars, metaVars>>

\* The response arrives and its body is decoded; then the status test.  A
\* non-200 status decrements retries and goes on to evaluate
\* asyncio.sleep(0.2), which raises NameError when asyncio is unbound.  A 200
\* breaks out of the loop and the call returns without suspending again.
GetTracksResponse(c, resp) ==
    /\ gt[c].pc = "get"
    /\ LET g == [gt[c] EXCEPT !.status = resp.status,
                              !.script = Append(@, resp.status),
                              !.data = resp.data]
       IN IF resp.status # HTTP_OK
          THEN \E bound \in BOOLEAN :
               /\ asyncio_bound \in {None, Some(bound)}
               /\ asyncio_bound' = Some(bound)
               /\ IF bound
                  THEN gt' = [gt EXCEPT ![c] =
                           [g EXCEPT !.retries = @ - 1, !.pc = "sleep"]]
                  ELSE gt' = [gt EXCEPT ![c] =
                           [g EXCEPT !.retries = @ - 1, !.pc = "done",
                                     !.result = [kind |-> "NameError",
                                                 tracks |-> <<>>]]]
          ELSE /\ gt' = [gt EXCEPT ![c] =
                        [g EXCEPT !.pc = "done",
                                  !.result = GetTracksResult(g.retries, g.data)]]
               /\ UNCHANGED asyncio_bound
    /\ UNCHANGED <<bt, nodeVars, metaVars>>

\* await asyncio.sleep(0.2) completes and the loop test is evaluated: with
\* retries left the next GET is issued, otherwise the call returns.
GetTracksSleep(c) ==
    /\ gt[c].pc = "sleep"
    /\ IF gt[c].retries > 0
       THEN gt' = [gt EXCEPT ![c].pc = "get", ![c].sleeps = @ + 1,
                             ![c].requests = @ + 1]
       ELSE gt' = [gt EXCEPT ![c].pc = "done", ![c].sleeps = @ + 1,
                             ![c].result =
                                 GetTracksResult(gt[c].retries, gt[c].data)]
    /\ UNCHANGED <<asyncio_bound, bt, nodeVars, metaVars>>

NoBuilt ==
    [kind |-> "pending", id |-> "", info |-> None, status |-> 0, error |-> ""]

IdleBuild ==
    [pc |-> "idle", identifier |-> "", requests |-> 0, resp |-> None,
     result |-> NoBuilt]

\* BuildTrackResult reporting the HTTP status line instead of the body's
\* status field.
BuildTrackResultHttpStatus(identifier, resp) ==
    IF ~(resp.status = HTTP_OK)
    THEN [kind |-> "BuildTrackError", id |-> "", info |-> None,
          status |-> resp.status, error |-> resp.data.error]
    ELSE [kind |-> "Track", id |-> identifier, info |-> Some(resp.data),
          status |-> 0, error |-> ""]

\* The body of build_track once the response has arrived.
BuildTrackResult(identifier, resp) ==
    IF ~(resp.status = HTTP_OK)
    THEN [kind |-> "BuildTrackError", id |-> "", info |-> None,
          status |-> resp.data.status, error |-> resp.data.error]
    ELSE [kind |-> "Track", id |-> identifier, info |-> Some(resp.data),
          status |-> 0, error |-> ""]

\* build_track is called: the GET is issued and the call suspends.
BuildTrackCall(c, identifier) ==
    /\ bt[c].pc = "idle"
    /\ bt' = [bt EXCEPT ![c].pc = "get", ![c].identifier = identifier,
                        ![c].requests = 1]
    /\ UNCHANGED <<asyncio_bound, gt, nodeVars, metaVars>>

\* The response arrives: raise BuildTrackError or return the Track.
BuildTrackResponse(c, resp) ==
    /\ bt[c].pc = "get"
    /\ bt' = [bt EXCEPT ![c].pc = "done",
                        ![c].resp = Some(resp),
                        ![c].result = BuildTrackResult(bt[c].identifier, resp)]
    /\ UNCHANGED <<asyncio_bound, gt, nodeVars, metaVars>>

(***************************************************************************)
(* The node: its fields, its transport handle, penalty and is_available.   *)
(***************************************************************************)
\* A float, as mantissa and decimal exponent.
Float(m, e) == [mant |-> m, exp |-> e]

\* 9e30, the penalty of a node that is closed or has no stats.
PENALTY_MAX == Float(9, 30)

\* The totals a Stats snapshot can carry.
Totals == {Float(m, 0) : m \in 0..MaxTotal}

IDENTIFIER == "MAIN"
NodeIds == {IDENTIFIER, "OTHER"}

WsIds == 1..MaxConnects
NewWs ==
    [created |-> FALSE, connecting |-> FALSE, is_connected |-> FALSE,
     task |-> "None", sent |-> 0]
WsCount == Cardinality({w \in WsIds : ws[w].created})

\* Node.is_available with the availability flag left out.
is_available_ignoring_flag ==
    /\ websocket # None
    /\ ws[websocket[1]].is_connected

\* Node.is_available
is_available ==
    /\ websocket # None
    /\ ws[websocket[1]].is_connected
    /\ available

\* Node.penalty testing the total instead of the snapshot: a total of 0 is
\* taken for "no stats".
penalty_falsy_total ==
    IF ~available \/ stats = None \/ stats[1].penalty.total = Float(0, 0)
    THEN PENALTY_MAX
    ELSE stats[1].penalty.total

\* Node.penalty
penalty ==
    IF ~available \/ stats = None
    THEN PENALTY_MAX
    ELSE stats[1].penalty.total

\* Node.close()
Close ==
    /\ available' = FALSE
    /\ h_closed' = TRUE
    /\ UNCHANGED <<stats, websocket, hook, players, nodes, ws, procVars,
                   penaltyRead, h_total, h_removals, h_sends, restVars,
                   metaVars>>

\* Node.open()
Open ==
    /\ available' = TRUE
    /\ h_closed' = FALSE
    /\ UNCHANGED <<stats, websocket, hook, players, nodes, ws, procVars,
                   penaltyRead, h_total, h_removals, h_sends, restVars,
                   metaVars>>

\* The transport's receive loop stores a new Stats snapshot on the node.
StatsUpdate(total) ==
    /\ stats' = Some([penalty |-> [total |-> total]])
    /\ h_total' = Some(total)
    /\ UNCHANGED <<available, websocket, hook, players, nodes, ws, procVars,
                   penaltyRead, h_closed, h_removals, h_sends, restVars,
                   metaVars>>

\* A caller reads the penalty property.
ReadPenalty ==
    /\ penaltyRead' = Some(penalty)
    /\ UNCHANGED <<fieldVars, ws, procVars, h_closed, h_total, h_removals,
                   h_sends, restVars,
                   metaVars>>

\* Node.connect() up to its await: a new WebSocket replaces the handle and
\* its _connect() is started.
ConnectCall ==
    /\ WsCount < MaxConnects
    /\ LET w == WsCount + 1 IN
        /\ ws' = [ws EXCEPT ![w] = [NewWs EXCEPT !.created = TRUE,
                                                 !.connecting = TRUE]]
        /\ websocket' = Some(w)
    /\ UNCHANGED <<available, stats, hook, players, nodes, procVars, histVars,
                   h_sends, restVars,
                   metaVars>>

\* WebSocket._connect() succeeds: the transport is connected and its
\* receive task runs; connect() returns.
ConnectOk(w) ==
    /\ ws[w].connecting
    /\ ws' = [ws EXCEPT ![w].connecting = FALSE, ![w].is_connected = TRUE,
                        ![w].task = "running"]
    /\ UNCHANGED <<fieldVars, procVars, histVars, h_sends, restVars, metaVars>>

\* WebSocket._connect() fails: connect() propagates the error; the handle
\* stays on the node.
ConnectFail(w) ==
    /\ ws[w].connecting
    /\ ws' = [ws EXCEPT ![w].connecting = FALSE]
    /\ UNCHANGED <<fieldVars, procVars, histVars, h_sends, restVars, metaVars>>

\* The transport loses its connection.
TransportDrop(w) ==
    /\ ws[w].is_connected
    /\ ws' = [ws EXCEPT ![w].is_connected = FALSE]
    /\ UNCHANGED <<fieldVars, procVars, histVars, h_sends, restVars, metaVars>>

\* The transport's receive task reconnects.
TransportReconnect(w) ==
    /\ ws[w].created /\ ~ws[w].connecting /\ ~ws[w].is_connected
    /\ ws[w].task = "running"
    /\ ws' = [ws EXCEPT ![w].is_connected = TRUE]
    /\ UNCHANGED <<fieldVars, procVars, histVars, h_sends, restVars, metaVars>>

\* _send counting every call as a forwarded one, transport or not.
SendWithoutHandleTest ==
    /\ h_sends.total < MaxSent
    /\ h_sends' = [h_sends EXCEPT !.total = @ + 1,
                                  !.early = IF WsCount = 0 THEN @ + 1 ELSE @]
    /\ ws' = [ws EXCEPT ![IF websocket # None THEN websocket[1] ELSE 1].sent
                             = @ + 1]
    /\ UNCHANGED <<fieldVars, procVars, histVars, restVars, metaVars>>

\* Node._send(): forwards to the transport when there is one.
Send ==
    /\ h_sends.total < MaxSent
    /\ h_sends' = [h_sends EXCEPT !.total = @ + 1,
                                  !.early = IF WsCount = 0 THEN @ + 1 ELSE @]
    /\ IF websocket # None
       THEN ws' = [ws EXCEPT ![websocket[1]].sent = @ + 1]
       ELSE UNCHANGED ws
    /\ UNCHANGED <<fieldVars, procVars, histVars, restVars, metaVars>>

(***************************************************************************)
(* Players and destroy.                                                    *)
(***************************************************************************)
Guilds == 1..MaxPlayers
DestroyCalls == {"d1"}

Range(seq) == {seq[i] : i \in 1..Len(seq)}
Without(seq, x) == SelectSeq(seq, LAMBDA y : y # x)

IdleDestroy ==
    [pc |-> "idle", snapshot |-> <<>>, idx |-> 0, cancel |-> "none",
     error |-> ""]

\* The client creates a player for a guild and stores it in node.players.
RegisterPlayer(g) ==
    /\ \A i \in 1..Len(players) : players[i] < g
    /\ players' = Append(players, g)
    /\ UNCHANGED <<available, stats, websocket, hook, nodes, ws, procVars,
                   histVars, h_sends, restVars, metaVars>>

\* A player leaves node.players.
RemovePlayer(g) ==
    /\ g \in Range(players)
    /\ players' = Without(players, g)
    /\ UNCHANGED <<available, stats, websocket, hook, nodes, ws, procVars,
                   histVars, h_sends, restVars, metaVars>>

\* FinishDestroy without the del: the node stays in the registry.
FinishDestroyNoDel(c, dc, cancelRaises) ==
    /\ ~cancelRaises
    /\ d' = [d EXCEPT ![c] = [dc EXCEPT !.pc = "done"]]
    /\ UNCHANGED <<ws, nodes, h_removals>>

\* The end of destroy(), after the loop over the players: cancel the receive
\* task inside try/except, then del self._client.nodes[self.identifier].
\* dc is the call's record so far.
FinishDestroy(c, dc, cancelRaises) ==
    /\ IF websocket # None /\ ws[websocket[1]].task # "None"
       THEN IF cancelRaises
            THEN /\ UNCHANGED ws
                 /\ IF IDENTIFIER \in nodes
                    THEN d' = [d EXCEPT ![c] =
                            [dc EXCEPT !.pc = "done", !.cancel = "suppressed"]]
                    ELSE d' = [d EXCEPT ![c] =
                            [dc EXCEPT !.pc = "raised", !.cancel = "suppressed",
                                       !.error = "KeyError"]]
            ELSE /\ ws' = [ws EXCEPT ![websocket[1]].task = "cancelled"]
                 /\ IF IDENTIFIER \in nodes
                    THEN d' = [d EXCEPT ![c] =
                            [dc EXCEPT !.pc = "done", !.cancel = "cancelled"]]
                    ELSE d' = [d EXCEPT ![c] =
                            [dc EXCEPT !.pc = "raised", !.cancel = "cancelled",
                                       !.error = "KeyError"]]
       ELSE /\ ~cancelRaises
            /\ UNCHANGED ws
            /\ IF IDENTIFIER \in nodes
               THEN d' = [d EXCEPT ![c] = [dc EXCEPT !.pc = "done"]]
               ELSE d' = [d EXCEPT ![c] =
                       [dc EXCEPT !.pc = "raised", !.error = "KeyError"]]
    /\ IF IDENTIFIER \in nodes
       THEN /\ nodes' = nodes \ {IDENTIFIER}
            /\ h_removals' = h_removals + 1
       ELSE UNCHANGED <<nodes, h_removals>>

\* destroy() is called: the players are copied; with no player the call
\* runs to its end, otherwise the first player's destroy() is awaited.
DestroyCall(c, cancelRaises) ==
    /\ d[c].pc = "idle"
    /\ LET dc == [d[c] EXCEPT !.snapshot = players] IN
       IF Len(players) = 0
       THEN /\ FinishDestroy(c, dc, cancelRaises)
            /\ UNCHANGED pcalls
       ELSE /\ ~cancelRaises
            /\ d' = [d EXCEPT ![c] = [dc EXCEPT !.pc = "player", !.idx = 1]]
            /\ pcalls' = [pcalls EXCEPT ![players[1]] = @ + 1]
            /\ UNCHANGED <<ws, nodes, h_removals>>
    /\ UNCHANGED <<available, stats, websocket, hook, players, ev, log, err,
                   penaltyRead, h_closed, h_total, h_sends, restVars,
                   metaVars>>

\* The awaited player.destroy() returns or raises.  An exception leaves
\* destroy() at once; otherwise the next player's destroy() is awaited or,
\* after the last one, the call runs to its end.
PlayerDestroyReturns(c, ok, cancelRaises) ==
    /\ d[c].pc = "player"
    /\ IF ~ok
       THEN /\ ~cancelRaises
            /\ d' = [d EXCEPT ![c].pc = "raised", ![c].error = "PlayerError"]
            /\ UNCHANGED <<ws, nodes, h_removals, pcalls>>
       ELSE IF d[c].idx < Len(d[c].snapshot)
            THEN /\ ~cancelRaises
                 /\ d' = [d EXCEPT ![c].idx = @ + 1]
                 /\ pcalls' = [pcalls EXCEPT
                                  ![d[c].snapshot[d[c].idx + 1]] = @ + 1]
                 /\ UNCHANGED <<ws, nodes, h_removals>>
            ELSE /\ FinishDestroy(c, d[c], cancelRaises)
                 /\ UNCHANGED pcalls
    /\ UNCHANGED <<available, stats, websocket, hook, players, ev, log, err,
                   penaltyRead, h_closed, h_total, h_sends, restVars,
                   metaVars>>

(***************************************************************************)
(* Event dispatch.                                                         *)
(***************************************************************************)
Hooks == {"async_hook", "sync_hook"}
HookArgs == Hooks \cup {"not_callable"}

\* callable(func)
Callable(func) == func \in Hooks

\* inspect.iscoroutinefunction(self.hook)
IsCoroutineFunction(func) == func = "async_hook"

EventIds == {"e1", "e2"}

\* event.player: e1 carries a player, e2 carries none.
EventPlayer(e) == IF e = "e1" THEN Some(1) ELSE None

\* seen is what "if not self.hook" read: None before on_event gets there.
IdleEvent == [pc |-> "idle", error |-> "", seen |-> None]

\* set_hook without the callable() test.
SetHookNoCheck(func) ==
    /\ hook' = Some(func)
    /\ err' = ""
    /\ UNCHANGED <<available, stats, websocket, players, nodes, ws, d, ev,
                   log, pcalls, histVars, h_sends, restVars, metaVars>>

\* Node.set_hook(func)
SetHook(func) ==
    /\ IF ~Callable(func)
       THEN /\ err' = "WavelinkException"
            /\ UNCHANGED hook
       ELSE /\ hook' = Some(func)
            /\ err' = ""
    /\ UNCHANGED <<available, stats, websocket, players, nodes, ws, d, ev,
                   log, pcalls, histVars, h_sends, restVars, metaVars>>

\* The second half of on_event, from "if not self.hook": no hook returns, a
\* coroutine function is called and awaited, any other callable is called
\* in place.  lg is the log so far.
NodeStage(e, lg, raises) ==
    IF hook = None
    THEN /\ ~raises
         /\ ev' = [ev EXCEPT ![e].pc = "done", ![e].seen = Some(hook)]
         /\ log' = lg
    ELSE IF IsCoroutineFunction(hook[1])
         THEN /\ ~raises
              /\ ev' = [ev EXCEPT ![e].pc = "await_node",
                                  ![e].seen = Some(hook)]
              /\ log' = Append(lg, <<e, "node_called">>)
         ELSE IF raises
              THEN /\ ev' = [ev EXCEPT ![e].pc = "raised",
                                       ![e].error = "HookError",
                                       ![e].seen = Some(hook)]
                   /\ log' = Append(lg, <<e, "node_called">>)
              ELSE /\ ev' = [ev EXCEPT ![e].pc = "done",
                                       ![e].seen = Some(hook)]
                   /\ log' = lg \o <<<<e, "node_called">>,
                                     <<e, "node_returned">>>>

\* on_event calling the player's hook without awaiting it.
OnEventCallNoAwait(e, playerAsync, raises) ==
    /\ ev[e].pc = "idle"
    /\ IF EventPlayer(e) # None
       THEN NodeStage(e, Append(log, <<e, "player_called">>), raises)
       ELSE NodeStage(e, log, raises)
    /\ UNCHANGED <<fieldVars, ws, d, pcalls, err, histVars, h_sends, restVars, metaVars>>

\* on_event is called.  With a player on the event the player's hook is
\* called and its result awaited: a coroutine function suspends the call; a
\* plain function runs in place and awaiting what it returned raises
\* TypeError.  Without a player the node's hook is next.
OnEventCall(e, playerAsync, raises) ==
    /\ ev[e].pc = "idle"
    /\ IF EventPlayer(e) # None
       THEN IF playerAsync
            THEN /\ ~raises
                 /\ ev' = [ev EXCEPT ![e].pc = "await_player"]
                 /\ log' = Append(log, <<e, "player_called">>)
            ELSE IF raises
                 THEN /\ ev' = [ev EXCEPT ![e].pc = "raised",
                                          ![e].error = "HookError"]
                      /\ log' = Append(log, <<e, "player_called">>)
                 ELSE /\ ev' = [ev EXCEPT ![e].pc = "raised",
                                          ![e].error = "TypeError"]
                      /\ log' = log \o <<<<e, "player_called">>,
                                         <<e, "player_returned">>>>
       ELSE /\ playerAsync
            /\ NodeStage(e, log, raises)
    /\ UNCHANGED <<fieldVars, ws, d, pcalls, err, histVars, h_sends, restVars, metaVars>>

\* The awaited player hook returns or raises.
PlayerHookReturns(e, ok, raises) ==
    /\ ev[e].pc = "await_player"
    /\ IF ~ok
       THEN /\ ~raises
            /\ ev' = [ev EXCEPT ![e].pc = "raised", ![e].error = "HookError"]
            /\ UNCHANGED log
       ELSE NodeStage(e, Append(log, <<e, "player_returned">>), raises)
    /\ UNCHANGED <<fieldVars, ws, d, pcalls, err, histVars, h_sends, restVars, metaVars>>

\* The awaited node hook returns or raises.
NodeHookReturns(e, ok) ==
    /\ ev[e].pc = "await_node"
    /\ IF ok
       THEN /\ ev' = [ev EXCEPT ![e].pc = "done"]
            /\ log' = Append(log, <<e, "node_returned">>)
       ELSE /\ ev' = [ev EXCEPT ![e].pc = "raised", ![e].error = "HookError"]
            /\ UNCHANGED log
    /\ UNCHANGED <<fieldVars, ws, d, pcalls, err, histVars, h_sends, restVars, metaVars>>

(***************************************************************************)
(* WavelinkMixin: the listener marker, the scan of __new__ and dispatch.   *)
(***************************************************************************)
\* The functions in the body of a consuming class, in the order
\* inspect.getmembers lists them (sorted by name).
FuncOrder == <<"node_ready_event", "on_node_ready", "plain_function">>
Funcs == Range(FuncOrder)
EventNames == {"on_node_ready", "on_track_end"}
Names == EventNames \cup Funcs

\* inspect.iscoroutinefunction(func)
IsCoroutine(f) == f # "plain_function"

\* The class body gives a function an empty __wavelink_listeners__ list
\* before the marker is applied to it.
SeedMarker(f) ==
    /\ instances = 0
    /\ marks[f] = None
    /\ marks' = [marks EXCEPT ![f] = Some(<<>>)]
    /\ UNCHANGED <<cls_listeners, instances, merr, dsp, sink, h_scans, h_func,
                   restVars, nodeVars>>

\* The marker without the inspect.iscoroutinefunction test.
ListenerNoTypeCheck(f, event) ==
    /\ instances = 0
    /\ marks[f] # None
    /\ Len(marks[f][1]) < MaxMarks
    /\ merr' = ""
    /\ marks' = [marks EXCEPT
                    ![f] = Some(Append(@[1], IF event # None THEN event[1] ELSE f))]
    /\ h_func' = f
    /\ UNCHANGED <<cls_listeners, instances, dsp, sink, h_scans, restVars,
                   nodeVars>>

\* WavelinkMixin.listener(event)(func): event is None or Some(name).
Listener(f, event) ==
    /\ instances = 0
    /\ marks[f] # None => Len(marks[f][1]) < MaxMarks
    /\ IF ~IsCoroutine(f)
       THEN /\ merr' = "TypeError"
            /\ UNCHANGED marks
       ELSE IF marks[f] = None
            THEN /\ merr' = "AttributeError"
                 /\ UNCHANGED marks
            ELSE LET name == IF event # None THEN event[1] ELSE f IN
                 /\ merr' = ""
                 /\ IF Len(marks[f][1]) > 0
                    THEN marks' = [marks EXCEPT ![f] = Some(Append(@[1], name))]
                    ELSE marks' = [marks EXCEPT ![f] = Some(<<name>>)]
    /\ h_func' = f
    /\ UNCHANGED <<cls_listeners, instances, dsp, sink, h_scans, restVars,
                   nodeVars>>

\* element.__name__, once for every time element is marked for name.
HandlersOf(f, name) ==
    IF marks[f] = None
    THEN <<>>
    ELSE [i \in 1..Len(SelectSeq(marks[f][1], LAMBDA n : n = name)) |-> f]

RECURSIVE Collect(_, _)
Collect(i, name) ==
    IF i > Len(FuncOrder)
    THEN <<>>
    ELSE HandlersOf(FuncOrder[i], name) \o Collect(i + 1, name)

\* The scan keeping, for each name, only the first handler found.
ScanListenersKeepFirst ==
    [name \in Names |->
        IF Collect(1, name) = <<>> THEN <<>> ELSE <<Head(Collect(1, name))>>]

\* The scan of __new__: name -> the handlers marked for it.  A name no
\* handler is marked for has no key; it is the empty list here.
ScanListeners == [name \in Names |-> Collect(1, name)]

\* __new__ with a cache: only the first instantiation scans and stores.
NewCached ==
    /\ instances < MaxInstances
    /\ instances' = instances + 1
    /\ IF cls_listeners = None
       THEN /\ cls_listeners' = Some(ScanListeners)
            /\ h_scans' = h_scans + 1
       ELSE UNCHANGED <<cls_listeners, h_scans>>
    /\ UNCHANGED <<marks, merr, dsp, sink, h_func, restVars, nodeVars>>

\* WavelinkMixin.__new__: scan the members, create the instance, store the
\* mapping on the class.
New ==
    /\ instances < MaxInstances
    /\ instances' = instances + 1
    /\ cls_listeners' = Some(ScanListeners)
    /\ h_scans' = h_scans + 1
    /\ UNCHANGED <<marks, merr, dsp, sink, h_func, restVars, nodeVars>>

IdleDispatch ==
    [pc |-> "idle", event |-> "", queue |-> <<>>, invoked |-> <<>>,
     raised |-> <<>>]

\* An event is raised on an instance: its listeners are looked up in the
\* class's mapping.
DispatchStart(name) ==
    /\ dsp.pc = "idle"
    /\ cls_listeners # None
    /\ dsp' = [dsp EXCEPT !.pc = "running", !.event = name,
                          !.queue = cls_listeners[1][name]]
    /\ UNCHANGED <<marks, cls_listeners, instances, merr, sink, h_scans,
                   h_func, restVars, nodeVars>>

\* The next listener is invoked; if it raises, on_wavelink_error is called
\* with its name, and dispatch goes on.
InvokeListener(raises) ==
    /\ dsp.pc = "running"
    /\ Len(dsp.queue) > 0
    /\ dsp' = [dsp EXCEPT !.queue = Tail(@),
                          !.invoked = Append(@, Head(dsp.queue)),
                          !.raised = Append(@, raises)]
    /\ sink' = IF raises THEN Append(sink, Head(dsp.queue)) ELSE sink
    /\ UNCHANGED <<marks, cls_listeners, instances, merr, h_scans, h_func,
                   restVars, nodeVars>>

\* Every listener has been invoked: dispatch returns to the event source.
DispatchEnd ==
    /\ dsp.pc = "running"
    /\ Len(dsp.queue) = 0
    /\ dsp' = [dsp EXCEPT !.pc = "done"]
    /\ UNCHANGED <<marks, cls_listeners, instances, merr, sink, h_scans,
                   h_func, restVars, nodeVars>>

MetaInit ==
    /\ marks = [f \in Funcs |-> None]
    /\ cls_listeners = None
    /\ instances = 0
    /\ merr = ""
    /\ dsp = IdleDispatch
    /\ sink = <<>>
    /\ h_scans = 0
    /\ h_func = ""

(***************************************************************************)
(* Initial state and the specifications.                                   *)
(***************************************************************************)
\* Node.__init__, the node registered in the client's pool.
NodeInit ==
    /\ available = TRUE
    /\ stats = None
    /\ websocket = None
    /\ hook = None
    /\ players = <<>>
    /\ nodes = NodeIds
    /\ ws = [w \in WsIds |-> NewWs]
    /\ d = [c \in DestroyCalls |-> IdleDestroy]
    /\ ev = [e \in EventIds |-> IdleEvent]
    /\ log = <<>>
    /\ pcalls = [g \in Guilds |-> 0]
    /\ err = ""
    /\ penaltyRead = None
    /\ h_closed = FALSE
    /\ h_total = None
    /\ h_removals = 0
    /\ h_sends = [total |-> 0, early |-> 0]

RestInit ==
    /\ asyncio_bound = None
    /\ gt = [c \in SearchCalls |-> IdleSearch]
    /\ bt = [c \in BuildCalls |-> IdleBuild]

RestNext ==
    \/ GetTracksCall("s1")
    \/ \E resp \in LoadResponses : GetTracksResponse("s1", resp)
    \/ GetTracksSleep("s1")
    \/ \E c \in BuildCalls, i \in Identifiers : BuildTrackCall(c, i)
    \/ \E c \in BuildCalls, resp \in DecodeResponses : BuildTrackResponse(c, resp)

Init == RestInit /\ NodeInit /\ MetaInit

SpecRest == Init /\ [][RestNext]_vars

\* A node that owns no players: flags, stats, transport and destroy.
NodeNext ==
    \/ Open
    \/ Close
    \/ \E t \in Totals : StatsUpdate(t)
    \/ ReadPenalty
    \/ ConnectCall
    \/ \E w \in WsIds : ConnectOk(w)
    \/ \E w \in WsIds : ConnectFail(w)
    \/ \E w \in WsIds : TransportDrop(w)
    \/ \E w \in WsIds : TransportReconnect(w)
    \/ Send
    \/ \E r \in BOOLEAN : DestroyCall("d1", r)

SpecNode == Init /\ [][NodeNext]_vars

\* The operations a caller can still invoke on a node around destroy():
\* open, close, connect, _send, set_hook and on_event for one event.
LifecycleNext ==
    \/ Open
    \/ Close
    \/ ConnectCall
    \/ \E w \in WsIds : ConnectOk(w)
    \/ \E w \in WsIds : ConnectFail(w)
    \/ Send
    \/ \E f \in Hooks : SetHook(f)
    \/ \E a, r \in BOOLEAN : OnEventCall("e1", a, r)
    \/ \E ok, r \in BOOLEAN : PlayerHookReturns("e1", ok, r)
    \/ \E ok \in BOOLEAN : NodeHookReturns("e1", ok)
    \/ \E r \in BOOLEAN : DestroyCall("d1", r)

SpecLifecycle == Init /\ [][LifecycleNext]_vars

\* A node with players: registration, removal, connect and destroy.
DestroyNext ==
    \/ \E g \in Guilds : RegisterPlayer(g)
    \/ \E g \in Guilds : RemovePlayer(g)
    \/ ConnectCall
    \/ \E w \in WsIds : ConnectOk(w)
    \/ \E w \in WsIds : ConnectFail(w)
    \/ \E r \in BOOLEAN : DestroyCall("d1", r)
    \/ \E ok, r \in BOOLEAN : PlayerDestroyReturns("d1", ok, r)

SpecDestroy == Init /\ [][DestroyNext]_vars

\* Event dispatch: set_hook and on_event for two events.
DispatchNext ==
    \/ \E f \in HookArgs : SetHook(f)
    \/ \E e \in EventIds, a, r \in BOOLEAN : OnEventCall(e, a, r)
    \/ \E e \in EventIds, ok, r \in BOOLEAN : PlayerHookReturns(e, ok, r)
    \/ \E e \in EventIds, ok \in BOOLEAN : NodeHookReturns(e, ok)

SpecDispatch == Init /\ [][DispatchNext]_vars

\* The consuming class: marking, instantiation and listener dispatch.
MetaNext ==
    \/ \E f \in Funcs : SeedMarker(f)
    \/ \E f \in Funcs, n \in EventNames : Listener(f, Some(n))
    \/ \E f \in Funcs : Listener(f, None)
    \/ New
    \/ \E n \in EventNames : DispatchStart(n)
    \/ \E r \in BOOLEAN : InvokeListener(r)
    \/ DispatchEnd

SpecMeta == Init /\ [][MetaNext]_vars

\* The responses used where two searches run side by side: a failure and a
\* success, each with an empty body or a body of one track.
ConcurrentResponses ==
    {r \in LoadResponses :
        /\ r.status \in {HTTP_OK, 500}
        /\ \/ r.data = NoData
           \/ r.data.hasTracks /\ Len(r.data.tracks) = 1
                /\ r.data.playlistInfo = "null"}

\* Two searches and a build_track running concurrently with open(), close()
\* and on_event for an event without a player.
ConcurrentNext ==
    \/ \E c \in SearchCalls : GetTracksCall(c)
    \/ \E c \in SearchCalls, resp \in ConcurrentResponses :
           GetTracksResponse(c, resp)
    \/ \E c \in SearchCalls : GetTracksSleep(c)
    \/ BuildTrackCall("b1", "idA")
    \/ \E resp \in DecodeResponses : BuildTrackResponse("b1", resp)
    \/ Open
    \/ Close
    \/ OnEventCall("e2", TRUE, FALSE)

SpecConcurrent == Init /\ [][ConcurrentNext]_vars

(***************************************************************************)
(* Claims about the REST operations (checked under SpecRest).              *)
(***************************************************************************)
Finished(c) == gt[c].pc = "done"
AllNon200(c) == \A i \in 1..Len(gt[c].script) : gt[c].script[i] # HTTP_OK

\* C2: a search whose every response was non-200 has, once finished, issued
\* exactly 5 requests and returned None; no error reached the caller.
C2_SustainedFailureGivesNone ==
    \A c \in SearchCalls :
        (Finished(c) /\ AllNon200(c)) =>
            /\ gt[c].requests = RETRIES
            /\ gt[c].result.kind = "None"

\* C3 as stated: a finished search whose decisive (200) response carried a
\* filled playlistInfo returned a TrackPlaylist, whatever the number of
\* tracks in the body, zero included.
C3_PlaylistForAnyTrackCount ==
    \A c \in SearchCalls :
        (Finished(c) /\ gt[c].status = HTTP_OK
                     /\ gt[c].data.playlistInfo = "full") =>
            gt[c].result.kind = "TrackPlaylist"

\* C3 amended: a finished search whose decisive (200) response carried a
\* filled playlistInfo and at least one track returned a TrackPlaylist
\* holding those tracks; with no tracks it returned None.
C3_PlaylistWhenTracksPresent ==
    \A c \in SearchCalls :
        (Finished(c) /\ gt[c].status = HTTP_OK
                     /\ gt[c].data.playlistInfo = "full") =>
            IF gt[c].data.hasTracks /\ Len(gt[c].data.tracks) >= 1
            THEN /\ gt[c].result.kind = "TrackPlaylist"
                 /\ Len(gt[c].result.tracks) = Len(gt[c].data.tracks)
            ELSE gt[c].result.kind = "None"

C3_Witness ==
    \E c \in SearchCalls :
        /\ Finished(c)
        /\ gt[c].status = HTTP_OK
        /\ gt[c].data.playlistInfo = "full"
        /\ Len(gt[c].data.tracks) = MaxTracks
        /\ gt[c].result.kind = "TrackPlaylist"

\* C4: every response that was followed by another request was non-200; a
\* search that received a 200 on its k-th request issued exactly k requests,
\* and returned None when that body had an empty or missing tracks list.
C4_RetryOnlyAfterNon200 ==
    \A c \in SearchCalls :
        /\ gt[c].requests = Len(gt[c].script) + (IF gt[c].pc = "get" THEN 1 ELSE 0)
        /\ gt[c].requests <= RETRIES
        /\ \A i \in 1..(Len(gt[c].script) - 1) : gt[c].script[i] # HTTP_OK
        /\ (Finished(c) /\ ~AllNon200(c)) =>
              /\ gt[c].script[gt[c].requests] = HTTP_OK
              /\ gt[c].status = HTTP_OK
              /\ (~gt[c].data.hasTracks \/ Len(gt[c].data.tracks) = 0) =>
                    gt[c].result.kind = "None"

\* The spec's example: 200 with an empty tracks list on the 3rd attempt gives
\* None after exactly 3 requests.
C4_Witness ==
    \E c \in SearchCalls :
        /\ Finished(c)
        /\ gt[c].script = <<500, 404, HTTP_OK>>
        /\ gt[c].data.hasTracks /\ gt[c].data.tracks = <<>>
        /\ gt[c].data.playlistInfo = "null"
        /\ gt[c].requests = 3
        /\ gt[c].result.kind = "None"

\* C5: build_track issues one request and no more; a 200 response gives a
\* Track with the identifier passed in, any other response raises
\* BuildTrackError carrying the body's status and error text.
C5_BuildTrackOneShot ==
    \A c \in BuildCalls :
        /\ bt[c].requests <= 1
        /\ bt[c].pc = "done" =>
              /\ bt[c].requests = 1
              /\ LET resp == bt[c].resp[1] IN
                  IF resp.status = HTTP_OK
                  THEN /\ bt[c].result.kind = "Track"
                       /\ bt[c].result.id = bt[c].identifier
                  ELSE /\ bt[c].result.kind = "BuildTrackError"
                       /\ bt[c].result.status = resp.data.status
                       /\ bt[c].result.error = resp.data.error

C5_Witness ==
    \E c \in BuildCalls :
        /\ bt[c].pc = "done"
        /\ bt[c].resp[1].status = 404
        /\ bt[c].resp[1].data.status = 404
        /\ bt[c].resp[1].data.error = "Not Found"
        /\ bt[c].result.kind = "BuildTrackError"
        /\ bt[c].result.status = 404
        /\ bt[c].result.error = "Not Found"
(***************************************************************************)
(* Claims about the node's fields and transport (checked under SpecNode).  *)
(***************************************************************************)
\* What penalty has to be, from the history of open/close and stats updates.
ExpectedPenalty ==
    IF h_closed \/ h_total = None THEN PENALTY_MAX ELSE h_total[1]

\* C1: in every state penalty is 9e30 when the node was last closed or no
\* stats update has happened, and the total of the last stats update
\* otherwise; a read of penalty returns that value and changes nothing of
\* the node.
C1_PenaltyFollowsHistory ==
    /\ penalty = ExpectedPenalty
    /\ [][/\ penalty' = ExpectedPenalty'
          /\ penaltyRead' # penaltyRead =>
                /\ penaltyRead' = Some(ExpectedPenalty)
                /\ UNCHANGED <<fieldVars, ws>>]_vars

\* A read returned 9e30 while the node was closed; reopened, with stats, the
\* penalty is the snapshot's total.
C1_Witness ==
    /\ penaltyRead = Some(PENALTY_MAX)
    /\ available /\ stats # None /\ h_closed = FALSE
    /\ penalty = stats[1].penalty.total
    /\ penalty # PENALTY_MAX

\* C9: in every state is_available is true exactly when the node was not
\* last closed, connect() has created a handle, and the transport of the
\* handle created last reports itself connected.
C9_IsAvailableIff ==
    /\ (websocket # None) <=> (WsCount > 0)
    /\ websocket # None => websocket[1] = WsCount
    /\ is_available <=>
         /\ ~h_closed
         /\ WsCount > 0
         /\ ws[WsCount].is_connected

\* A second connect() failed: the first transport is still connected, but
\* the node's handle is the second one and the node is not usable.
C9_Witness ==
    /\ WsCount = 2
    /\ ws[1].is_connected
    /\ ~ws[2].is_connected /\ ~ws[2].connecting
    /\ available
    /\ ~is_available

(***************************************************************************)
(* Claims about the node after destroy (checked under SpecLifecycle).      *)
(***************************************************************************)
DestroyDone == \E c \in DestroyCalls : d[c].pc = "done"

\* C10 as stated: once destroy() has completed, no step changes the node's
\* availability flag, its handle, what was sent over its transports, or the
\* registry.
C10_DestroyedIsTerminal ==
    [][DestroyDone =>
         /\ available' = available
         /\ websocket' = websocket
         /\ nodes' = nodes
         /\ \A w \in WsIds : /\ ws'[w].sent = ws[w].sent
                             /\ ws'[w].created = ws[w].created]_vars

\* C10 amended: once destroy() has completed the node's identifier is not in
\* the registry, in every later state too, and the one removal is the only
\* one.
C10_DestroyedStaysUnregistered ==
    DestroyDone =>
        /\ IDENTIFIER \notin nodes
        /\ h_removals = 1

\* destroy() completed on a node that had no receive task; afterwards a
\* connect() succeeded, a payload was sent and the node is usable.
C10_Witness ==
    /\ DestroyDone
    /\ d["d1"].cancel = "none"
    /\ is_available
    /\ ws[websocket[1]].task = "running"
    /\ ws[websocket[1]].sent > 0
    /\ IDENTIFIER \notin nodes

(***************************************************************************)
(* Claims about destroy with players (checked under SpecDestroy).          *)
(***************************************************************************)
\* C6: when a destroy() call has ended, by returning or by a player's
\* exception, destroy() has been called on every player of its snapshot and
\* the node's entry has been removed from the registry, once.
C6_DestroyReachesEveryPlayer ==
    \A c \in DestroyCalls :
        (d[c].pc = "done" \/ (d[c].pc = "raised" /\ d[c].error = "PlayerError")) =>
            /\ \A i \in 1..Len(d[c].snapshot) : pcalls[d[c].snapshot[i]] >= 1
            /\ IDENTIFIER \notin nodes
            /\ h_removals = 1

(***************************************************************************)
(* Claims about event dispatch (checked under SpecDispatch).               *)
(***************************************************************************)
\* C7: for an event that carries a player, every invocation of the node's
\* hook is preceded in the log by the return of the player's hook for that
\* event, itself preceded by the call of the player's hook.
C7_PlayerHookBeforeNodeHook ==
    \A e \in EventIds :
        EventPlayer(e) # None =>
            \A j \in 1..Len(log) :
                log[j] = <<e, "node_called">> =>
                    \E i \in 1..(j - 1) :
                        /\ log[i] = <<e, "player_returned">>
                        /\ \E k \in 1..(i - 1) : log[k] = <<e, "player_called">>

\* Both hooks ran for e1 while the dispatch of e2 was in between.
C7_Witness ==
    \E i, j, k \in 1..Len(log) :
        /\ i < j /\ j < k
        /\ log[i] = <<"e1", "player_called">>
        /\ log[j] = <<"e2", "node_called">>
        /\ log[k] = <<"e1", "node_called">>
(***************************************************************************)
(* Claims about listener dispatch (checked under SpecMeta).                *)
(***************************************************************************)
MarkedFor(f, name) ==
    /\ marks[f] # None
    /\ \E i \in 1..Len(marks[f][1]) : marks[f][1][i] = name

\* The invoked listeners that raised, in the order they were invoked.
RECURSIVE RaisedListeners(_)
RaisedListeners(i) ==
    IF i > Len(dsp.invoked)
    THEN <<>>
    ELSE (IF dsp.raised[i] THEN <<dsp.invoked[i]>> ELSE <<>>)
            \o RaisedListeners(i + 1)

Count(e, what) == Len(SelectSeq(log, LAMBDA x : x = <<e, what>>))

\* on_event has returned or raised for e.
Ended(e) == ev[e].pc \in {"done", "raised"}

\* C11: an on_event call in which no hook raised returns normally, having
\* called the player's hook once iff the event carries a player and the
\* node's hook once iff one was registered, whether the hooks are coroutine
\* functions or plain functions.
C11_OnEventDeliversOnce ==
    \A e \in EventIds :
        (Ended(e) /\ ev[e].error # "HookError") =>
            /\ ev[e].pc = "done"
            /\ Count(e, "player_called")
                   = (IF EventPlayer(e) # None THEN 1 ELSE 0)
            /\ ev[e].seen # None
            /\ Count(e, "node_called")
                   = (IF ev[e].seen[1] # None THEN 1 ELSE 0)

Occurrences(seq, name) == Len(SelectSeq(seq, LAMBDA n : n = name))

\* C13: applying the marker to a coroutine function succeeds, and once the
\* class is instantiated its mapping holds, for each event, exactly the
\* handlers marked for it.
C13_MarkerRecordsEveryName ==
    /\ (h_func # "" /\ IsCoroutine(h_func)) => merr = ""
    /\ cls_listeners # None =>
          \A name \in Names, f \in Funcs :
              Occurrences(cls_listeners[1][name], f)
                  = (IF marks[f] = None THEN 0
                     ELSE Occurrences(marks[f][1], name))

\* C14: applying the marker to a function that is not a coroutine function
\* raises TypeError and marks nothing, so that function is in no list of the
\* class's mapping.
C14_NonCoroutineRejected ==
    /\ (h_func # "" /\ ~IsCoroutine(h_func)) => merr = "TypeError"
    /\ \A f \in Funcs :
          ~IsCoroutine(f) =>
              /\ marks[f] = None \/ marks[f][1] = <<>>
              /\ cls_listeners # None =>
                    \A name \in Names :
                        Occurrences(cls_listeners[1][name], f) = 0

C14_Witness ==
    /\ h_func = "plain_function"
    /\ merr = "TypeError"
    /\ marks["plain_function"] = Some(<<>>)
    /\ marks["on_node_ready"] = Some(<<"on_node_ready">>)
    /\ cls_listeners # None
    /\ cls_listeners[1]["on_node_ready"] = <<"on_node_ready">>

(***************************************************************************)
(* Claims about _send (checked under SpecNode).                            *)
(***************************************************************************)
\* The payloads the transports 1..w have been handed.
RECURSIVE Forwarded(_)
Forwarded(w) == IF w = 0 THEN 0 ELSE ws[w].sent + Forwarded(w - 1)

\* C15: a _send call made before the node ever had a transport sends
\* nothing and changes nothing; every other _send call hands its payload to
\* the node's transport once.  So the transports have been handed as many
\* payloads as there were calls after the first connect.
C15_SendForwardsOnceOrNothing ==
    /\ Forwarded(MaxConnects) = h_sends.total - h_sends.early
    /\ [][/\ Forwarded(MaxConnects)' = h_sends'.total - h_sends'.early
          /\ h_sends' # h_sends => UNCHANGED <<fieldVars, procVars>>
          /\ h_sends'.early # h_sends.early => ws' = ws
          /\ (h_sends' # h_sends /\ h_sends'.early = h_sends.early) =>
                /\ websocket # None
                /\ ws' = [ws EXCEPT ![websocket[1]].sent = @ + 1]]_vars

C15_Witness ==
    /\ h_sends = [total |-> 2, early |-> 1]
    /\ websocket # None
    /\ ws[websocket[1]].sent = 1

(***************************************************************************)
(* Claims about set_hook (checked under SpecDispatch).                     *)
(***************************************************************************)
\* C16: the node's hook is always None or a callable; a set_hook call that
\* raises WavelinkException leaves the hook as it was, and the hook only
\* ever changes to a callable, in a call that raises nothing.
C16_HookAbsentOrInvocable ==
    /\ hook = None
    /\ [][/\ hook' = None \/ Callable(hook'[1])
          /\ err' = "WavelinkException" => hook' = hook
          /\ hook' # hook => (err' = "" /\ hook' # None)]_vars

C16_Witness ==
    /\ hook = Some("sync_hook")
    /\ err = "WavelinkException"

(***************************************************************************)
(* Claims about concurrent REST calls (checked under SpecConcurrent).      *)
(***************************************************************************)
\* The non-200 responses call c has received.
NonOk(c) == Len(SelectSeq(gt[c].script, LAMBDA st : st # HTTP_OK))

\* Each search has made at most RETRIES attempts, and the attempts it has
\* left are RETRIES less its own failed attempts, whatever the other did.
OwnBudget ==
    \A c \in SearchCalls :
        /\ gt[c].requests <= RETRIES
        /\ gt[c].pc # "idle" => gt[c].retries = RETRIES - NonOk(c)
        /\ gt[c].requests
               = Len(gt[c].script) + (IF gt[c].pc = "get" THEN 1 ELSE 0)

\* C17: no step of a search or of a build_track changes the node's fields
\* or its transports, however the calls interleave with each other and with
\* open(), close() and on_event; and each search keeps its own budget.
C17_RestCallsAreStateless ==
    /\ OwnBudget
    /\ [][/\ (gt' # gt \/ bt' # bt) => UNCHANGED <<fieldVars, ws, procVars>>
          /\ OwnBudget']_vars

C17_Witness ==
    /\ gt["s1"].pc = "done" /\ gt["s1"].requests = RETRIES
    /\ gt["s1"].result.kind = "None"
    /\ gt["s2"].pc = "done" /\ gt["s2"].requests = 2
    /\ gt["s2"].result.kind = "list"
    /\ bt["b1"].pc = "done"
    /\ ~available
    /\ ev["e2"].pc = "done"

(***************************************************************************)
(* Claims about destroy (checked under SpecDestroy).                       *)
(***************************************************************************)
\* destroy call c returns or raises in this step.
DestroyEnds(c) ==
    /\ d[c].pc \notin {"done", "raised"}
    /\ d'[c].pc \in {"done", "raised"}

\* The node's transport has a receive task.
HasTask == websocket # None /\ ws[websocket[1]].task # "None"

\* C18: when a destroy() call ends, the node's entry is gone from the
\* registry; a receive task the node had has been cancelled, or the error of
\* cancelling it was suppressed; and with no transport or no task no cancel
\* was attempted.
C18_DestroyCancelsReceiveTask ==
    [][\A c \in DestroyCalls :
          DestroyEnds(c) =>
              /\ IDENTIFIER \notin nodes'
              /\ HasTask =>
                    \/ d'[c].cancel = "cancelled"
                         /\ ws'[websocket[1]].task = "cancelled"
                    \/ d'[c].cancel = "suppressed"
              /\ ~HasTask => (d'[c].cancel = "none" /\ ws' = ws)]_vars

\* C19: destroy() takes its snapshot from the players of the moment it is
\* called; registering or removing players later leaves the call as it is;
\* and when the call ends, each player of the snapshot has had destroy()
\* called once and no other player has.
C19_DestroyWorksOnSnapshot ==
    [][\A c \in DestroyCalls :
          /\ (d[c].pc = "idle" /\ d'[c].pc # "idle") =>
                d'[c].snapshot = players
          /\ players' # players => d'[c] = d[c]
          /\ DestroyEnds(c) =>
                \A g \in Guilds :
                    pcalls'[g] = (IF g \in Range(d'[c].snapshot) THEN 1 ELSE 0)]_vars

====
